---------------------------- MODULE Spec2Model ----------------------------
(***************************************************************************)
(* UltraSub: bounded task executor (src/src/tasks.py), retry decorator     *)
(* (src/src/decorators.py), translation model (src/src/llm.py), batch      *)
(* construction and reconciliation (src/src/funcs.py) and the command-line *)
(* run (src/translate_subtitle.py).                                        *)
(*                                                                         *)
(* Python indices are kept 0-based; a Python list l is the sequence whose  *)
(* element l[i] is At(l, i).                                               *)
(***************************************************************************)
EXTENDS Integers, Sequences, FiniteSets, TLC

VARIABLES
    \* ---- TaskManager (src/src/tasks.py)
    max_workers,        \* TaskManager.max_workers
    permits,            \* TaskManager.semaphore._value
    sem_waiters,        \* FIFO of _execute_task coroutines blocked on the semaphore
    tasks,              \* TaskManager.tasks : task_id -> Task
    task_counter,       \* TaskManager._task_counter
    exec_pc,            \* task_id -> position of its _execute_task coroutine
    now,                \* loop.time(), in units of the 0.1 s poll interval
    callers,            \* caller -> the get_result invocation it is in
    \* ---- retry_on_failure (src/src/decorators.py)
    retr,               \* the wrapper invocations, by index
    \* ---- the run (src/translate_subtitle.py, src/src/llm.py)
    env,                \* the environment variables that are set and not empty
    subtitles,          \* the list read_srt_file returned
    batch_size,         \* args.batch_size
    phase,              \* position of main()
    loop_i,             \* loop variable of the loop main() is in
    batch_messages,     \* main.batch_messages
    chat,               \* batch -> the chat_completion coroutine of that batch
    batch_results,      \* what asyncio.gather returned
    all_results,        \* main.all_results
    output,             \* the blocks generate_translated_srt wrote
    total_prompt_tokens,     \* TranslationModel.total_prompt_tokens
    total_completion_tokens, \* TranslationModel.total_completion_tokens
    \* ---- observation
    first_done,         \* the batch whose remote call answered first (-1: none yet)
    reconcile_in        \* the arguments of a parse_batch_translation_result call

execVars == <<max_workers, permits, sem_waiters, tasks, task_counter, exec_pc>>
callVars == <<now, callers>>
sideVars == <<first_done, reconcile_in>>
runCore  == <<env, subtitles, batch_size, phase, loop_i, batch_messages, chat,
              batch_results, all_results, output,
              total_prompt_tokens, total_completion_tokens, reconcile_in>>
runVars  == <<runCore, first_done>>
vars == <<execVars, callVars, retr, runVars>>

-----------------------------------------------------------------------------
(* Bounds of the model *)
MaxWorkers == 2      \* worker budgets 1..MaxWorkers
MaxTasks   == 3      \* submissions to one TaskManager
MaxTime    == 2      \* loop.time() runs 0..MaxTime
MaxTimeout == 1      \* positive timeouts 1..MaxTimeout
MaxCalls   == 2      \* get_result calls per caller
MaxRetries == 3      \* max_retries runs -1..MaxRetries
MaxDelay   == 2      \* delay runs 1..MaxDelay
MaxFactor  == 3      \* backoff_factor runs 1..MaxFactor
MaxLines   == 3      \* a run reads 0..MaxLines subtitle lines
MaxBatchSize == 2    \* a run has --batch-size 1..MaxBatchSize
MaxBatchLines == 7   \* batching alone is explored on 0..MaxBatchLines lines
MaxBatchBatchSize == 4   \* and batch sizes 1..MaxBatchBatchSize
MaxParseLines == 4   \* reconciliation alone is explored on 1..MaxParseLines lines
MaxParseBatchSize == 3   \* and batch sizes 1..MaxParseBatchSize
MaxEntries == 3      \* with response lists of 0..MaxEntries entries
ExampleLines == 7    \* a run is also explored on a file of ExampleLines lines
ExampleBatchSize == 3    \* with --batch-size ExampleBatchSize
PromptTokens == 2    \* response.usage.prompt_tokens of every response
CompletionTokens == 3    \* response.usage.completion_tokens of every response

-----------------------------------------------------------------------------
(* Python values *)
\* An Optional[T] is a set of at most one T: None is the empty set
None == {}
Some(x) == {x}
TheValue(o) == CHOOSE x \in o : TRUE

At(l, i) == l[i + 1]
Min(a, b) == IF a < b THEN a ELSE b
Max(a, b) == IF a > b THEN a ELSE b

-----------------------------------------------------------------------------
(* src/src/tasks.py *)

\* Task(func, args, kwargs): result = None, error = None, completed = False
NewTask(op) == [func |-> op, result |-> None, error |-> None, completed |-> FALSE]

\* the Task object get_result returns is the registry's entry
TaskRef(id) == Some(id)

\* a get_result invocation: how is the return statement it left by ("" while it
\* has not returned); prev is the caller's previous invocation (id -1: none)
NoPrev == [id |-> -1, how |-> ""]
IdleCaller == [pc |-> "idle", id |-> 0, timeout |-> None, start |-> 0, ret |-> None,
               how |-> "", calls |-> 0, prev |-> NoPrev]

ExecInit ==
    /\ permits = max_workers
    /\ sem_waiters = <<>>
    /\ tasks = <<>>
    /\ task_counter = 0
    /\ exec_pc = <<>>

\* SubmitOp reusing the id: the counter is not advanced
SubmitOpSameId(op) ==
    /\ tasks' = (task_counter :> NewTask(op)) @@ tasks
    /\ exec_pc' = (task_counter :> "created") @@ exec_pc
    /\ task_counter' = task_counter
    /\ UNCHANGED <<max_workers, permits, sem_waiters>>

\* TaskManager.submit: no suspension point, so one step
SubmitOp(op) ==
    /\ tasks' = tasks @@ (task_counter :> NewTask(op))
    /\ exec_pc' = exec_pc @@ (task_counter :> "created")
    /\ task_counter' = task_counter + 1
    /\ UNCHANGED <<max_workers, permits, sem_waiters>>

\* Acquire without the gate: admits whether or not a permit is free
AcquireUngated(id) ==
    /\ id \in DOMAIN exec_pc
    /\ exec_pc[id] = "created"
    /\ permits' = permits - 1
    /\ exec_pc' = [exec_pc EXCEPT ![id] = "running"]
    /\ UNCHANGED <<max_workers, sem_waiters, tasks, task_counter>>

\* "async with self.semaphore", a permit is free and nobody queues: admitted
Acquire(id) ==
    /\ id \in DOMAIN exec_pc
    /\ exec_pc[id] = "created"
    /\ permits > 0 /\ sem_waiters = <<>>
    /\ permits' = permits - 1
    /\ exec_pc' = [exec_pc EXCEPT ![id] = "running"]
    /\ UNCHANGED <<max_workers, sem_waiters, tasks, task_counter>>

\* Block losing the waiter: the coroutine waits but is not queued
BlockUnqueued(id) ==
    /\ id \in DOMAIN exec_pc
    /\ exec_pc[id] = "created"
    /\ ~(permits > 0 /\ sem_waiters = <<>>)
    /\ exec_pc' = [exec_pc EXCEPT ![id] = "waiting"]
    /\ UNCHANGED <<max_workers, permits, sem_waiters, tasks, task_counter>>

\* "async with self.semaphore", no permit: the coroutine queues on the semaphore
Block(id) ==
    /\ id \in DOMAIN exec_pc
    /\ exec_pc[id] = "created"
    /\ ~(permits > 0 /\ sem_waiters = <<>>)
    /\ sem_waiters' = Append(sem_waiters, id)
    /\ exec_pc' = [exec_pc EXCEPT ![id] = "waiting"]
    /\ UNCHANGED <<max_workers, permits, tasks, task_counter>>

\* the semaphore hands a released permit to its first waiter
Wake(id) ==
    /\ sem_waiters # <<>>
    /\ id = Head(sem_waiters)
    /\ permits > 0
    /\ permits' = permits - 1
    /\ sem_waiters' = Tail(sem_waiters)
    /\ exec_pc' = [exec_pc EXCEPT ![id] = "running"]
    /\ UNCHANGED <<max_workers, tasks, task_counter>>

\* Finish in two steps, completed set before result
FinishFlagFirst(id, result) ==
    /\ id \in DOMAIN exec_pc
    /\ exec_pc[id] = "running"
    /\ IF ~tasks[id].completed
       THEN /\ tasks' = [tasks EXCEPT ![id] = [@ EXCEPT !.completed = TRUE]]
            /\ UNCHANGED <<permits, exec_pc>>
       ELSE /\ tasks' = [tasks EXCEPT ![id] = [@ EXCEPT !.result = result]]
            /\ permits' = permits + 1
            /\ exec_pc' = [exec_pc EXCEPT ![id] = "done"]
    /\ UNCHANGED <<max_workers, sem_waiters, task_counter>>

\* the awaited body returned: result, completed, then the semaphore's __aexit__
Finish(id, result) ==
    /\ id \in DOMAIN exec_pc
    /\ exec_pc[id] = "running"
    /\ tasks' = [tasks EXCEPT ![id] = [@ EXCEPT !.result = result, !.completed = TRUE]]
    /\ permits' = permits + 1
    /\ exec_pc' = [exec_pc EXCEPT ![id] = "done"]
    /\ UNCHANGED <<max_workers, sem_waiters, task_counter>>

\* Raise without __aexit__: the error leaves and the permit stays taken
RaiseKeepsPermit(id) ==
    /\ id \in DOMAIN exec_pc
    /\ exec_pc[id] = "running"
    /\ exec_pc' = [exec_pc EXCEPT ![id] = "raised"]
    /\ UNCHANGED <<max_workers, permits, sem_waiters, tasks, task_counter>>

\* the awaited body raised: the error leaves _execute_task through __aexit__
Raise(id) ==
    /\ id \in DOMAIN exec_pc
    /\ exec_pc[id] = "running"
    /\ permits' = permits + 1
    /\ exec_pc' = [exec_pc EXCEPT ![id] = "raised"]
    /\ UNCHANGED <<max_workers, sem_waiters, tasks, task_counter>>

\* GetResultEntry where a timeout of 0 has expired at the entry
GetResultEntryZero(tbl, cl, id, timeout, t) ==
    IF id \notin DOMAIN tbl
    THEN [cl EXCEPT !.pc = "returned", !.id = id, !.timeout = timeout, !.start = t,
                    !.ret = None, !.how = "unregistered"]
    ELSE IF tbl[id].completed
    THEN [cl EXCEPT !.pc = "returned", !.id = id, !.timeout = timeout, !.start = t,
                    !.ret = TaskRef(id), !.how = "completed"]
    ELSE IF timeout = Some(0)
    THEN [cl EXCEPT !.pc = "returned", !.id = id, !.timeout = timeout, !.start = t,
                    !.ret = None, !.how = "timeout"]
    ELSE [cl EXCEPT !.pc = "polling", !.id = id, !.timeout = timeout, !.start = t,
                    !.ret = None, !.how = ""]

\* get_result from its entry to its first suspension point (or return),
\* reading the registry tbl at time t
GetResultEntry(tbl, cl, id, timeout, t) ==
    IF id \notin DOMAIN tbl
    THEN [cl EXCEPT !.pc = "returned", !.id = id, !.timeout = timeout, !.start = t,
                    !.ret = None, !.how = "unregistered"]
    ELSE IF tbl[id].completed
    THEN [cl EXCEPT !.pc = "returned", !.id = id, !.timeout = timeout, !.start = t,
                    !.ret = TaskRef(id), !.how = "completed"]
    ELSE [cl EXCEPT !.pc = "polling", !.id = id, !.timeout = timeout, !.start = t,
                    !.ret = None, !.how = ""]

\* TimedOut without the "timeout and" test: timeout = 0 expires as well
TimedOutZero(cl, t) ==
    /\ cl.timeout # None
    /\ (t - cl.start) > TheValue(cl.timeout)

\* "if timeout and (self.loop.time() - start_time) > timeout"
TimedOut(cl, t) ==
    /\ cl.timeout # None /\ cl.timeout # Some(0)
    /\ (t - cl.start) > TheValue(cl.timeout)

\* GetResultPoll that also ends when the task's body has raised
GetResultPollEnds(tbl, cl, t) ==
    IF tbl[cl.id].completed
    THEN [cl EXCEPT !.pc = "returned", !.ret = TaskRef(cl.id), !.how = "completed"]
    ELSE IF TimedOut(cl, t) \/ exec_pc[cl.id] = "raised"
    THEN [cl EXCEPT !.pc = "returned", !.ret = None, !.how = "timeout"]
    ELSE cl

\* get_result after asyncio.sleep(0.1): the loop test, the timeout test
GetResultPoll(tbl, cl, t) ==
    IF tbl[cl.id].completed
    THEN [cl EXCEPT !.pc = "returned", !.ret = TaskRef(cl.id), !.how = "completed"]
    ELSE IF TimedOut(cl, t)
    THEN [cl EXCEPT !.pc = "returned", !.ret = None, !.how = "timeout"]
    ELSE cl

-----------------------------------------------------------------------------
(* src/src/decorators.py *)

\* what one call func(*args, **kwargs) does: it returns None, raises an error of
\* the exceptions tuple, raises an error outside it, or returns a value
\* (for a coroutine function: the coroutine object, which is not None)
Failures == {"None", "raise"}
Outcomes == Failures \cup {"raise_other", "value", "coroutine"}

\* wrapper(*args, **kwargs) at its entry: current_delay = delay, and the for
\* loop over range(max_retries + 1), which falls through when the range is empty
NewWrapper(max_retries, delay, backoff_factor) ==
    [max_retries |-> max_retries, delay |-> delay, backoff_factor |-> backoff_factor,
     pc |-> IF max_retries + 1 > 0 THEN "call" ELSE "returned",
     attempt |-> 0, current_delay |-> delay,
     outs |-> <<>>, sleeps |-> <<>>, ret |-> None]

\* WrapperAttempt giving up one attempt early ("attempt == max_retries - 1")
WrapperAttemptShort(w, out) ==
    LET w1 == [w EXCEPT !.outs = Append(@, out)]
    IN  IF out \notin Failures \cup {"raise_other"}
        THEN [w1 EXCEPT !.pc = "returned", !.ret = Some(out)]
        ELSE IF out = "raise_other"
        THEN [w1 EXCEPT !.pc = "raised"]
        ELSE IF w.attempt >= w.max_retries - 1
        THEN [w1 EXCEPT !.pc = "returned", !.ret = None]
        ELSE [w1 EXCEPT !.pc = "sleep", !.sleeps = Append(@, w.current_delay)]

\* one iteration of the for loop up to its return, raise or time.sleep:
\* the call of func, the None test, the except clause
WrapperAttempt(w, out) ==
    LET w1 == [w EXCEPT !.outs = Append(@, out)]
    IN  IF out \notin Failures \cup {"raise_other"}
        THEN [w1 EXCEPT !.pc = "returned", !.ret = Some(out)]
        ELSE IF out = "raise_other"
        THEN [w1 EXCEPT !.pc = "raised"]
        ELSE IF w.attempt = w.max_retries
        THEN [w1 EXCEPT !.pc = "returned", !.ret = None]
        ELSE [w1 EXCEPT !.pc = "sleep", !.sleeps = Append(@, w.current_delay)]

\* WrapperSleepDone with a linear instead of a geometric backoff
WrapperSleepDoneLinear(w) ==
    [w EXCEPT !.pc = "call",
              !.current_delay = @ + w.delay,
              !.attempt = @ + 1]

\* time.sleep(current_delay) is over: current_delay *= backoff_factor, next attempt
WrapperSleepDone(w) ==
    [w EXCEPT !.pc = "call",
              !.current_delay = @ * w.backoff_factor,
              !.attempt = @ + 1]

-----------------------------------------------------------------------------
(* src/src/funcs.py *)

\* the list read_srt_file returns for a file of n well-formed blocks: line i
\* (0-based) has number 2i+1 (numbers are the file's, not the indices)
Subtitle(i) == [number |-> 2 * i + 1, timestamp |-> i, text |-> "en" \o ToString(i)]
Subtitles(n) == [k \in 1..n |-> Subtitle(k - 1)]

\* EndIndex clamped one short
EndIndexShort(subs, start_index, size) == Min(start_index + size, Len(subs) - 1)

\* end_index = min(start_index + batch_size, len(subtitles))
EndIndex(subs, start_index, size) == Min(start_index + size, Len(subs))

\* [subtitles[i]['text'] for i in range(lo, hi)]
RECURSIVE RangeTexts(_, _, _)
RangeTexts(subs, lo, hi) ==
    IF lo >= hi THEN <<>> ELSE <<At(subs, lo).text>> \o RangeTexts(subs, lo + 1, hi)

\* ContextBefore reaching back three lines
ContextBeforeThree(subs, start_index) ==
    RangeTexts(subs, Max(0, start_index - 3), start_index)

\* for i in range(max(0, start_index - 2), start_index)
ContextBefore(subs, start_index) ==
    RangeTexts(subs, Max(0, start_index - 2), start_index)

\* for i in range(end_index, min(len(subtitles), end_index + 2))
ContextAfter(subs, end_index) ==
    RangeTexts(subs, end_index, Min(Len(subs), end_index + 2))

\* for i in range(start_index, end_index): {"编号": number, "文本": text}
RECURSIVE CurrentBatch(_, _, _)
CurrentBatch(subs, lo, hi) ==
    IF lo >= hi THEN <<>>
    ELSE <<[number |-> At(subs, lo).number, text |-> At(subs, lo).text]>>
         \o CurrentBatch(subs, lo + 1, hi)

\* " - ".join(texts)
RECURSIVE Join(_)
Join(texts) ==
    IF texts = <<>> THEN ""
    ELSE IF Len(texts) = 1 THEN texts[1]
    ELSE texts[1] \o " - " \o Join(Tail(texts))

\* format_translation_prompt_with_context: the message, with the locals it was
\* built from
format_translation_prompt_with_context(subs, start_index, size) ==
    LET end_index == EndIndex(subs, start_index, size)
        context_before == ContextBefore(subs, start_index)
        context_after == ContextAfter(subs, end_index)
        current_batch == CurrentBatch(subs, start_index, end_index)
    IN  [start_index |-> start_index, end_index |-> end_index,
         context_before |-> context_before, context_after |-> context_after,
         role |-> "user",
         content |-> [before |-> Join(context_before),
                      batch |-> current_batch,
                      after |-> Join(context_after)]]

\* A response text is a sequence of tokens: brackets, other text, and JSON
\* values (an object with or without its two keys, or a scalar)
LBr == [t |-> "["]
RBr == [t |-> "]"]
Txt == [t |-> "txt"]
Scalar == [t |-> "scalar"]
Obj(num, tr) == [t |-> "obj", num |-> num, tr |-> tr]

Positions(text, tok) == {i \in DOMAIN text : text[i] = tok}
SetMin(S) == CHOOSE m \in S : \A k \in S : m <= k
SetMax(S) == CHOOSE m \in S : \A k \in S : m >= k

\* re.search(r'\[.*\]', result, re.DOTALL): from the first "[" to the last "]"
\* after it; None when there is no such pair
JsonMatch(text) ==
    IF Positions(text, LBr) = {} THEN None
    ELSE LET first == SetMin(Positions(text, LBr))
             closers == {i \in Positions(text, RBr) : i > first}
         IN  IF closers = {} THEN None
             ELSE Some(SubSeq(text, first, SetMax(closers)))

\* JsonLoads skipping what is not a JSON value instead of failing
JsonLoadsLenient(json_str) ==
    LET inner == SubSeq(json_str, 2, Len(json_str) - 1)
    IN  Some(SelectSeq(inner, LAMBDA tok : tok.t \in {"obj", "scalar"}))

\* json.loads of a matched string: a list when what is between the outer
\* brackets is a sequence of JSON values, JSONDecodeError (None here) otherwise
JsonLoads(json_str) ==
    LET inner == SubSeq(json_str, 2, Len(json_str) - 1)
    IN  IF \A i \in DOMAIN inner : inner[i].t \in {"obj", "scalar"}
        THEN Some(inner) ELSE None

\* {item["编号"]: item["译文"] for item in translations} raises (TypeError on a
\* scalar, KeyError on a missing key)
MapRaises(translations) ==
    \E i \in DOMAIN translations :
        \/ translations[i].t # "obj"
        \/ translations[i].num = None
        \/ translations[i].tr = None

\* the dict of that comprehension: a later item replaces an earlier one
TranslationMap(translations) ==
    LET nums == {TheValue(translations[i].num) : i \in DOMAIN translations}
    IN  [n \in nums |->
            LET last == SetMax({i \in DOMAIN translations :
                                    TheValue(translations[i].num) = n})
            IN  TheValue(translations[last].tr)]

\* ParsedResults leaving a line that is not in the map without a translation
RECURSIVE ParsedResultsNone(_, _, _, _)
ParsedResultsNone(translation_map, subs, lo, hi) ==
    IF lo >= hi THEN <<>>
    ELSE LET subtitle == At(subs, lo)
             r == IF subtitle.number \in DOMAIN translation_map
                  THEN <<Some(translation_map[subtitle.number]), None, None>>
                  ELSE <<None, None, None>>
         IN  <<r>> \o ParsedResultsNone(translation_map, subs, lo + 1, hi)

\* the loop over range(start_index, end_index) of the try block
RECURSIVE ParsedResults(_, _, _, _)
ParsedResults(translation_map, subs, lo, hi) ==
    IF lo >= hi THEN <<>>
    ELSE LET subtitle == At(subs, lo)
             r == IF subtitle.number \in DOMAIN translation_map
                  THEN <<Some(translation_map[subtitle.number]), None, None>>
                  ELSE <<Some(subtitle.text), None, None>>
         IN  <<r>> \o ParsedResults(translation_map, subs, lo + 1, hi)

\* EmptyResults copying the source text of each line in
RECURSIVE EmptyResultsSourceText(_, _)
EmptyResultsSourceText(lo, hi) ==
    IF lo >= hi THEN <<>>
    ELSE <<(<<Some(At(subtitles, lo).text), None, None>>)>> \o EmptyResultsSourceText(lo + 1, hi)

\* [(None, None, None) for _ in range(start_index, end_index)]
RECURSIVE EmptyResults(_, _)
EmptyResults(lo, hi) ==
    IF lo >= hi THEN <<>> ELSE <<(<<None, None, None>>)>> \o EmptyResults(lo + 1, hi)

\* parse_batch_translation_result returning an empty list from its except clause
parse_batch_translation_result_drop(result, subs, start_index, size) ==
    LET end_index == EndIndex(subs, start_index, size)
        json_match == IF result = None THEN None ELSE JsonMatch(TheValue(result))
        translations == IF json_match = None THEN None
                        ELSE JsonLoads(TheValue(json_match))
    IN  IF translations = None \/ MapRaises(TheValue(translations))
        THEN <<>>
        ELSE ParsedResults(TranslationMap(TheValue(translations)), subs,
                           start_index, end_index)

\* parse_batch_translation_result; result is None (re.search raises TypeError)
\* or Some(text)
parse_batch_translation_result(result, subs, start_index, size) ==
    LET end_index == EndIndex(subs, start_index, size)
        json_match == IF result = None THEN None ELSE JsonMatch(TheValue(result))
        translations == IF json_match = None THEN None
                        ELSE JsonLoads(TheValue(json_match))
    IN  IF translations = None \/ MapRaises(TheValue(translations))
        THEN EmptyResults(start_index, end_index)
        ELSE ParsedResults(TranslationMap(TheValue(translations)), subs,
                           start_index, end_index)

\* generate_translated_srt: one block per pair of zip(subtitles, translations);
\* "if not translation" keeps the original text
RECURSIVE SrtBlocks(_, _, _)
SrtBlocks(subs, translations, k) ==
    IF k > Min(Len(subs), Len(translations)) THEN <<>>
    ELSE LET translation == translations[k][1]
         IN  <<[number |-> subs[k].number, timestamp |-> subs[k].timestamp,
                text |-> IF translation = None \/ translation = Some("")
                         THEN subs[k].text ELSE TheValue(translation)]>>
             \o SrtBlocks(subs, translations, k + 1)

generate_translated_srt(subs, translations) == SrtBlocks(subs, translations, 1)

-----------------------------------------------------------------------------
(* src/src/llm.py *)

\* @retry_on_failure(max_retries=5, delay=3.0, backoff_factor=2.0)
ChatMaxRetries == 5
ChatDelay == 3
ChatBackoffFactor == 2

NoneTuple == <<None, None, None>>

\* a chat_completion coroutine that has not started
NewChat == [pc |-> "created", task_id |-> -1, ret |-> NoneTuple]

Usage == [prompt_tokens |-> PromptTokens, completion_tokens |-> CompletionTokens,
          total_tokens |-> PromptTokens + CompletionTokens]

\* the list a model asked for these items answers with
Answer(items) ==
    [k \in DOMAIN items |->
        Obj(Some(items[k].number), Some("zh" \o ToString(items[k].number)))]

\* message.content of the responses the remote model gives to a batch message:
\* no content, text without a list, a list that is not JSON, the full answer
\* inside commentary, the answer without its last entry
Contents(msg) ==
    LET items == msg.content.batch
    IN  { None,
          Some(<<Txt>>),
          Some(<<LBr, Txt, RBr>>),
          Some(<<Txt, LBr>> \o Answer(items) \o <<RBr, Txt>>),
          Some(<<LBr>> \o Answer(SubSeq(items, 1, Len(items) - 1)) \o <<RBr>>) }

\* chat_completion after get_result returned cl: "if task and task.completed" ...
\* what it returns, or "raise" for "raise task.error"
ChatResult(tbl, cl) ==
    IF cl.ret # None /\ tbl[TheValue(cl.ret)].completed
    THEN IF tbl[TheValue(cl.ret)].error # None THEN "raise"
         ELSE TheValue(tbl[TheValue(cl.ret)].result)
    ELSE NoneTuple

\* ChatReturn storing the usage instead of adding it
ChatReturnStore(b, tbl, cl) ==
    LET r == ChatResult(tbl, cl)
    IN  IF r = "raise"
        THEN /\ chat' = [chat EXCEPT ![b].pc = "raised"]
             /\ UNCHANGED <<total_prompt_tokens, total_completion_tokens>>
        ELSE /\ chat' = [chat EXCEPT ![b].pc = "returned", ![b].ret = r]
             /\ IF cl.ret # None /\ tbl[TheValue(cl.ret)].completed
                THEN /\ total_prompt_tokens' = TheValue(r[3]).prompt_tokens
                     /\ total_completion_tokens' = TheValue(r[3]).completion_tokens
                ELSE UNCHANGED <<total_prompt_tokens, total_completion_tokens>>

\* chat_completion from get_result's return to its own
ChatReturn(b, tbl, cl) ==
    LET r == ChatResult(tbl, cl)
    IN  IF r = "raise"
        THEN /\ chat' = [chat EXCEPT ![b].pc = "raised"]
             /\ UNCHANGED <<total_prompt_tokens, total_completion_tokens>>
        ELSE /\ chat' = [chat EXCEPT ![b].pc = "returned", ![b].ret = r]
             /\ IF cl.ret # None /\ tbl[TheValue(cl.ret)].completed
                THEN /\ total_prompt_tokens' = total_prompt_tokens + TheValue(r[3]).prompt_tokens
                     /\ total_completion_tokens' =
                            total_completion_tokens + TheValue(r[3]).completion_tokens
                ELSE UNCHANGED <<total_prompt_tokens, total_completion_tokens>>

-----------------------------------------------------------------------------
(* src/translate_subtitle.py *)

RequiredEnv == {"API_KEY", "ENDPOINT", "MODEL_NAME"}

\* no parse_batch_translation_result call is under observation
NoReconcile == [kind |-> "", result |-> None, start_index |-> 0]

mainVars == <<env, subtitles, batch_size>>

InitRunOn(lineCounts, sizes) ==
    /\ max_workers \in 1..MaxWorkers
    /\ ExecInit
    /\ now = 0
    /\ callers = <<>>
    /\ retr = <<>>
    /\ env \in SUBSET RequiredEnv
    /\ \E n \in lineCounts : subtitles = Subtitles(n)
    /\ batch_size \in sizes
    /\ phase = "env"
    /\ loop_i = 0
    /\ batch_messages = <<>> /\ chat = <<>> /\ batch_results = <<>>
    /\ all_results = <<>> /\ output = <<>>
    /\ total_prompt_tokens = 0 /\ total_completion_tokens = 0
    /\ first_done = -1 /\ reconcile_in = NoReconcile

InitRun(maxLines, maxSize) == InitRunOn(0..maxLines, 1..maxSize)

\* CheckEnv looking at API_KEY only
CheckEnvKeyOnly ==
    /\ phase = "env"
    /\ phase' = IF "API_KEY" \notin env THEN "aborted" ELSE "batching"
    /\ UNCHANGED <<execVars, callVars, retr, mainVars, sideVars, loop_i, batch_messages, chat,
                   batch_results, all_results, output,
                   total_prompt_tokens, total_completion_tokens>>

\* "if missing_vars: ... return"
CheckEnv ==
    /\ phase = "env"
    /\ phase' = IF RequiredEnv \ env # {} THEN "aborted" ELSE "batching"
    /\ UNCHANGED <<execVars, callVars, retr, mainVars, sideVars, loop_i, batch_messages, chat,
                   batch_results, all_results, output,
                   total_prompt_tokens, total_completion_tokens>>

\* one iteration of "for i in range(0, total_subtitles, batch_size)", or its end
BuildBatch ==
    /\ phase = "batching"
    /\ IF loop_i < Len(subtitles)
       THEN /\ batch_messages' = Append(batch_messages,
                    format_translation_prompt_with_context(subtitles, loop_i, batch_size))
            /\ loop_i' = loop_i + batch_size
            /\ UNCHANGED phase
       ELSE /\ phase' = "calls"
            /\ loop_i' = 0
            /\ UNCHANGED batch_messages
    /\ UNCHANGED <<execVars, callVars, retr, mainVars, sideVars, chat,
                   batch_results, all_results, output,
                   total_prompt_tokens, total_completion_tokens>>

\* one element of "[llm.chat_completion(messages=[msg]) for msg in batch_messages]":
\* the decorator's wrapper runs and calls the coroutine function; or the list's end
MakeCall ==
    /\ phase = "calls"
    /\ IF loop_i < Len(batch_messages)
       THEN /\ retr' = retr @@ (loop_i :>
                    WrapperAttempt(NewWrapper(ChatMaxRetries, ChatDelay, ChatBackoffFactor),
                                   "coroutine"))
            /\ chat' = chat @@ (loop_i :> NewChat)
            /\ loop_i' = loop_i + 1
            /\ UNCHANGED phase
       ELSE /\ phase' = "gather"
            /\ UNCHANGED <<retr, chat, loop_i>>
    /\ UNCHANGED <<execVars, callVars, mainVars, sideVars, batch_messages,
                   batch_results, all_results, output,
                   total_prompt_tokens, total_completion_tokens>>

\* a chat_completion coroutine runs to its first suspension: submit, then
\* get_result(task_id) up to asyncio.sleep; gather starts them in list order
ChatStart ==
    \E b \in DOMAIN chat :
        /\ phase = "gather"
        /\ chat[b].pc = "created"
        /\ \A b2 \in DOMAIN chat : b2 < b => chat[b2].pc # "created"
        /\ SubmitOp("_do_completion")
        /\ LET cl == GetResultEntry(tasks', IdleCaller, task_counter, None, now)
           IN  /\ callers' = callers @@ (b :> cl)
               /\ IF cl.pc = "returned"
                  THEN ChatReturn(b, tasks', cl)
                  ELSE /\ chat' = [chat EXCEPT ![b].pc = "polling",
                                              ![b].task_id = task_counter]
                       /\ UNCHANGED <<total_prompt_tokens, total_completion_tokens>>
        /\ UNCHANGED <<now, retr, mainVars, sideVars, phase, loop_i, batch_messages,
                       batch_results, all_results, output>>

RunUnchanged == <<callVars, retr, runVars>>

RunAcquire == \E id \in DOMAIN exec_pc : phase = "gather" /\ Acquire(id) /\ UNCHANGED RunUnchanged
RunBlock   == \E id \in DOMAIN exec_pc : phase = "gather" /\ Block(id) /\ UNCHANGED RunUnchanged
RunWake    == \E id \in DOMAIN exec_pc : phase = "gather" /\ Wake(id) /\ UNCHANGED RunUnchanged

\* the batch whose chat_completion submitted task id
BatchOfTask(id) == CHOOSE b \in DOMAIN chat : chat[b].task_id = id

\* _do_completion: the remote call answered; (result, reasoning_content, usage)
RemoteAnswers ==
    \E id \in DOMAIN exec_pc :
        \E content \in Contents(At(batch_messages, BatchOfTask(id))) :
            /\ phase = "gather"
            /\ Finish(id, Some(<<content, None, Some(Usage)>>))
            /\ first_done' = IF first_done = -1 THEN BatchOfTask(id) ELSE first_done
            /\ UNCHANGED <<callVars, retr, runCore>>

\* _do_completion: the remote call (or the reading of its response) raised
RemoteRaises ==
    \E id \in DOMAIN exec_pc :
        /\ phase = "gather"
        /\ Raise(id)
        /\ UNCHANGED RunUnchanged

\* a chat_completion coroutine wakes from get_result's asyncio.sleep(0.1)
ChatPoll ==
    \E b \in DOMAIN chat :
        /\ phase = "gather"
        /\ chat[b].pc = "polling"
        /\ LET cl == GetResultPoll(tasks, callers[b], now)
           IN  /\ callers' = [callers EXCEPT ![b] = cl]
               /\ IF cl.pc = "returned"
                  THEN ChatReturn(b, tasks, cl)
                  ELSE UNCHANGED <<chat, total_prompt_tokens, total_completion_tokens>>
        /\ UNCHANGED <<now, execVars, retr, mainVars, sideVars, phase, loop_i, batch_messages,
                       batch_results, all_results, output>>

\* Gather handing over the results as they came: the first answer first
GatherAsCompleted ==
    /\ phase = "gather"
    /\ \A b \in DOMAIN chat : chat[b].pc \in {"returned", "raised"}
    /\ IF \E b \in DOMAIN chat : chat[b].pc = "raised"
       THEN /\ phase' = "crashed"
            /\ UNCHANGED batch_results
       ELSE /\ phase' = "parse"
            /\ batch_results' =
                 IF first_done = -1 THEN <<>>
                 ELSE <<chat[first_done].ret>> \o
                      [k \in 1..(Len(batch_messages) - 1) |->
                          chat[IF k - 1 < first_done THEN k - 1 ELSE k].ret]
    /\ loop_i' = 0
    /\ UNCHANGED <<execVars, callVars, retr, mainVars, sideVars, batch_messages, chat,
                   all_results, output, total_prompt_tokens, total_completion_tokens>>

\* "batch_results = await asyncio.gather(*tasks)" returns: every coroutine did
Gather ==
    /\ phase = "gather"
    /\ \A b \in DOMAIN chat : chat[b].pc \in {"returned", "raised"}
    /\ IF \E b \in DOMAIN chat : chat[b].pc = "raised"
       THEN /\ phase' = "crashed"
            /\ UNCHANGED batch_results
       ELSE /\ phase' = "parse"
            /\ batch_results' = [k \in 1..Len(batch_messages) |-> chat[k - 1].ret]
    /\ loop_i' = 0
    /\ UNCHANGED <<execVars, callVars, retr, mainVars, sideVars, batch_messages, chat,
                   all_results, output, total_prompt_tokens, total_completion_tokens>>

\* one iteration of "for i, (result_text, reasoning, _) in enumerate(batch_results)",
\* or the loop's end
ParseBatch ==
    /\ phase = "parse"
    /\ IF loop_i < Len(batch_results)
       THEN /\ all_results' = all_results \o
                    parse_batch_translation_result(At(batch_results, loop_i)[1], subtitles,
                                                   loop_i * batch_size, batch_size)
            /\ loop_i' = loop_i + 1
            /\ UNCHANGED phase
       ELSE /\ phase' = "write"
            /\ UNCHANGED <<all_results, loop_i>>
    /\ UNCHANGED <<execVars, callVars, retr, mainVars, sideVars, batch_messages, chat,
                   batch_results, output, total_prompt_tokens, total_completion_tokens>>

\* generate_translated_srt(subtitles, all_results, ...)
WriteOutput ==
    /\ phase = "write"
    /\ output' = generate_translated_srt(subtitles, all_results)
    /\ phase' = "written"
    /\ UNCHANGED <<execVars, callVars, retr, mainVars, sideVars, loop_i, batch_messages, chat,
                   batch_results, all_results,
                   total_prompt_tokens, total_completion_tokens>>

\* get_total_usage()
get_total_usage ==
    [total_prompt_tokens |-> total_prompt_tokens,
     total_completion_tokens |-> total_completion_tokens,
     total_tokens |-> total_prompt_tokens + total_completion_tokens]

Init ==
    \/ InitRun(MaxLines, MaxBatchSize)
    \/ InitRunOn({ExampleLines}, {ExampleBatchSize})

Next ==
    \/ CheckEnv \/ BuildBatch \/ MakeCall \/ ChatStart
    \/ RunAcquire \/ RunBlock \/ RunWake \/ RemoteAnswers \/ RemoteRaises
    \/ ChatPoll \/ Gather \/ ParseBatch \/ WriteOutput

Spec == Init /\ [][Next]_vars

\* the event loop runs every coroutine that can run, and a remote call ends
FairSpec == Spec /\ WF_vars(Next)

\* batching alone, on longer files
InitBatch == InitRun(MaxBatchLines, MaxBatchBatchSize)
NextBatch == CheckEnv \/ BuildBatch
SpecBatch == InitBatch /\ [][NextBatch]_vars

-----------------------------------------------------------------------------
(* Properties of the run *)

\* C2: a run that passed the configuration check always completes, whatever the
\* remote calls do: it eventually has written its output, one block per line.
C2_RunCompletes ==
    (phase = "batching") ~> (phase = "written" /\ Len(output) = Len(subtitles))

\* C3: whenever the reconciliation loop has finished, all_results has one
\* entry per subtitle line (and after i iterations, one per line of the first
\* i batches), whatever the responses were.
C3_OneResultPerLine ==
    /\ (phase = "parse")
            => Len(all_results) = Min(loop_i * batch_size, Len(subtitles))
    /\ (phase \in {"write", "written"}) => Len(all_results) = Len(subtitles)
    /\ (phase = "written") => Len(output) = Len(subtitles)

\* the loop finished on several batches, one without content and one malformed
C3_Witness ==
    /\ phase = "write"
    /\ Len(batch_results) > 1
    /\ \E k \in DOMAIN batch_results : batch_results[k][1] = None
    /\ \E k \in DOMAIN batch_results : batch_results[k][1] = Some(<<LBr, Txt, RBr>>)
    /\ Len(all_results) = Len(subtitles)

\* the remote call of batch b raised
RemoteRaised(b) ==
    /\ b \in DOMAIN chat
    /\ chat[b].task_id \in DOMAIN exec_pc
    /\ exec_pc[chat[b].task_id] = "raised"

\* C5: when the remote call of a chat_completion raises, the Retrier makes
\* another attempt or, its attempts used up, chat_completion returns
\* (None, None, None) to its caller.
C5_RaisedCallIsRetriedOrSurfaced ==
    \A b \in 0..(MaxLines - 1) :
        RemoteRaised(b) ~>
            (/\ b \in DOMAIN chat
             /\ \/ Len(retr[b].outs) > 1
                \/ chat[b].pc = "returned" /\ chat[b].ret = NoneTuple)

\* C6: chat_completion does not hand an empty response to its caller while the
\* Retrier has attempts left.
C6_EmptyResponseIsRetried ==
    \A b \in DOMAIN chat :
        (chat[b].pc = "returned" /\ chat[b].ret[1] = None)
            => Len(retr[b].outs) = ChatMaxRetries + 1

\* the least k with k * b >= n
CeilDiv(n, b) == CHOOSE k \in 0..n : k * b >= n /\ (k = 0 \/ (k - 1) * b < n)

\* C9: the batches start at 0, B, 2B, ...; each is the non-empty range
\* [s, min(s+B, N)) of lines and starts where its predecessor ended; once all
\* are built there are ceil(N/B) of them and the last ends at N.
C9_BatchesPartition ==
    LET n == Len(subtitles)
        bm == batch_messages
    IN  /\ \A k \in DOMAIN bm :
            /\ bm[k].start_index = (k - 1) * batch_size
            /\ bm[k].start_index = IF k = 1 THEN 0 ELSE bm[k - 1].end_index
            /\ bm[k].start_index < bm[k].end_index
            /\ bm[k].end_index = Min(bm[k].start_index + batch_size, n)
            /\ Len(bm[k].content.batch) = bm[k].end_index - bm[k].start_index
            /\ \A j \in DOMAIN bm[k].content.batch :
                    /\ bm[k].content.batch[j].number = subtitles[bm[k].start_index + j].number
                    /\ bm[k].content.batch[j].text = subtitles[bm[k].start_index + j].text
        /\ (phase \notin {"env", "aborted", "batching"})
            => /\ Len(bm) = CeilDiv(n, batch_size)
               /\ (n = 0) => bm = <<>>
               /\ (n > 0) => bm[Len(bm)].end_index = n

\* 7 lines in batches of 3: three batches, of 3, 3 and 1 lines
C9_Witness ==
    /\ phase = "calls"
    /\ Len(subtitles) = 7 /\ batch_size = 3
    /\ Len(batch_messages) = 3
    /\ Len(batch_messages[3].content.batch) = 1

Elems(seq) == {seq[i] : i \in DOMAIN seq}

\* C10: for a batch [s, e) of N lines, context_before is the texts of lines
\* max(0, s-2) .. s-1 in order (2 of them when s > 1, s of them otherwise),
\* context_after the texts of lines e .. min(N, e+2)-1 in order, and no line of
\* the batch is in either.
C10_ContextWindows ==
    \A k \in DOMAIN batch_messages :
        LET m == batch_messages[k]
            s == m.start_index
            e == m.end_index
            n == Len(subtitles)
            cb == m.context_before
            ca == m.context_after
        IN  /\ Len(cb) = IF s > 1 THEN 2 ELSE s
            /\ \A j \in 1..Len(cb) : cb[j] = At(subtitles, s - Len(cb) + j - 1).text
            /\ Len(ca) = IF n - e > 2 THEN 2 ELSE n - e
            /\ \A j \in 1..Len(ca) : ca[j] = At(subtitles, e + j - 1).text
            /\ \A i \in s..(e - 1) : At(subtitles, i).text \notin Elems(cb) \cup Elems(ca)
            /\ m.content.before = Join(cb) /\ m.content.after = Join(ca)

\* a batch in the middle of the file with two lines on either side, and a batch
\* starting at line 1
C10_Witness ==
    /\ \E k \in DOMAIN batch_messages :
            /\ batch_messages[k].start_index > 1
            /\ Len(batch_messages[k].context_before) = 2
            /\ Len(batch_messages[k].context_after) = 2
    /\ \E k \in DOMAIN batch_messages :
            /\ batch_messages[k].start_index = 1
            /\ Len(batch_messages[k].context_before) = 1

\* the translation the model is asked to give for a line
Translated(line) == "zh" \o ToString(line.number)

\* the response of batch k (0-based) is the full answer to its message
FullyAnswered(k) ==
    chat[k].ret[1] =
        Some(<<Txt, LBr>> \o Answer(At(batch_messages, k).content.batch) \o <<RBr, Txt>>)

\* C13: whatever the order in which the batches complete, the results of a run
\* are in line order: the result at position i is line i's translation when
\* line i's own batch was fully answered, and never another line's text; the
\* written block at position i is line i's.
C13_ResultsInLineOrder ==
    (phase \in {"write", "written"})
        => /\ Len(all_results) = Len(subtitles)
           /\ \A i \in DOMAIN subtitles :
                LET line == subtitles[i]
                    k == (i - 1) \div batch_size
                IN  /\ all_results[i][1] \in
                            {None, Some(line.text), Some(Translated(line))}
                    /\ FullyAnswered(k) => all_results[i][1] = Some(Translated(line))
                    /\ (phase = "written")
                        => /\ output[i].number = line.number
                           /\ output[i].timestamp = line.timestamp
                           /\ output[i].text \in {line.text, Translated(line)}
                           /\ FullyAnswered(k) => output[i].text = Translated(line)

\* ExampleLines lines in batches of ExampleBatchSize, a later batch answered
\* first, every batch fully answered: the output is every line's translation
C13_Witness ==
    /\ phase = "written"
    /\ Len(subtitles) = ExampleLines /\ batch_size = ExampleBatchSize
    /\ Len(batch_messages) > 1
    /\ first_done > 0
    /\ Len(output) = ExampleLines
    /\ \A i \in DOMAIN output : output[i].text = Translated(subtitles[i])

\* the chat_completion calls that returned a completed task's result
Completed == {b \in DOMAIN chat : chat[b].pc = "returned"}

\* C14: the running totals are the usage of every completed chat_completion,
\* each counted once: C completed calls of usage {p, c} give {C*p, C*c}, also
\* when they ran concurrently.
C14_NoLostUsage ==
    /\ total_prompt_tokens = Cardinality(Completed) * PromptTokens
    /\ total_completion_tokens = Cardinality(Completed) * CompletionTokens
    /\ (phase \in {"parse", "write", "written"})
        => get_total_usage =
            [total_prompt_tokens |-> Len(batch_messages) * PromptTokens,
             total_completion_tokens |-> Len(batch_messages) * CompletionTokens,
             total_tokens |-> Len(batch_messages) * (PromptTokens + CompletionTokens)]

\* three calls ran with two workers and all completed
C14_Witness ==
    /\ phase = "parse"
    /\ max_workers > 1
    /\ Len(batch_messages) = 3
    /\ total_prompt_tokens = 3 * PromptTokens
    /\ total_completion_tokens = 3 * CompletionTokens

\* C19: when API_KEY, ENDPOINT or MODEL_NAME is missing the run goes from the
\* check to its end: nothing is ever batched, called, submitted or executed.
C19_MissingConfigAborts ==
    (RequiredEnv \ env # {})
        => /\ phase \in {"env", "aborted"}
           /\ task_counter = 0 /\ tasks = <<>> /\ exec_pc = <<>>
           /\ chat = <<>> /\ retr = <<>> /\ batch_messages = <<>>

\* only MODEL_NAME is missing, a file with lines is given, and the run is over
C19_Witness ==
    /\ env = {"API_KEY", "ENDPOINT"}
    /\ Len(subtitles) > 0
    /\ phase = "aborted"
    /\ task_counter = 0

-----------------------------------------------------------------------------
(* One call of parse_batch_translation_result, on any response *)

SeqsUpTo(S, n) == UNION {[1..k -> S] : k \in 0..n}

\* {"编号": n, "译文": ...} as the model is asked to answer for line number n
Entry(n) == Obj(Some(n), Some("zh" \o ToString(n)))

\* entries without one of the two keys, or not an object
BadEntries(nums) == {Scalar} \cup {Obj(None, Some("zh"))} \cup {Obj(Some(n), None) : n \in nums}

Commentary == {<<>>, <<Txt>>}

\* the responses of each kind for a batch of lines numbered nums; 0 numbers no
\* line: "nil" is a failed call's None, "nolist" has no "[" with a "]" after it,
\* "badjson" has one but does not deserialize, "list" is a list of well-formed
\* entries in any order inside commentary, "badentry" a list with a bad entry
Responses(kind, nums) ==
    LET full == [k \in 1..Cardinality(nums) |->
                    Entry(CHOOSE n \in nums : Cardinality({m \in nums : m < n}) = k - 1)]
    IN  CASE kind = "nil" -> {None}
          [] kind = "nolist" ->
                {Some(<<>>), Some(<<Txt>>), Some(<<LBr, Txt>>), Some(<<RBr, Txt, LBr>>),
                 Some(full \o <<RBr>>)}
          [] kind = "badjson" ->
                {Some(<<LBr, Txt, RBr>>),
                 Some(<<LBr>> \o full \o <<RBr, Txt, RBr>>),
                 Some(<<LBr, RBr, Txt, LBr>> \o full \o <<RBr>>)}
          [] kind = "list" ->
                {Some(pre \o <<LBr>> \o es \o <<RBr>> \o post) :
                    pre \in Commentary, post \in Commentary,
                    es \in SeqsUpTo({Entry(n) : n \in nums \cup {0}}, MaxEntries)}
          [] kind = "badentry" ->
                {Some(<<LBr>> \o es \o <<bad>> \o es2 \o <<RBr>>) :
                    bad \in BadEntries(nums),
                    es \in SeqsUpTo({Entry(n) : n \in nums}, 1),
                    es2 \in SeqsUpTo({Entry(n) : n \in nums}, 1)}

Kinds == {"nil", "nolist", "badjson", "list", "badentry"}

\* the numbers of the lines [lo, hi)
Numbers(subs, lo, hi) == {At(subs, i).number : i \in lo..(hi - 1)}

InitParse ==
    /\ max_workers = 1
    /\ ExecInit
    /\ now = 0
    /\ callers = <<>>
    /\ retr = <<>>
    /\ env = RequiredEnv
    /\ \E n \in 1..MaxParseLines : subtitles = Subtitles(n)
    /\ batch_size \in 1..MaxParseBatchSize
    /\ phase = "reconcile"
    /\ loop_i = 0
    /\ batch_messages = <<>> /\ chat = <<>> /\ batch_results = <<>>
    /\ all_results = <<>> /\ output = <<>>
    /\ total_prompt_tokens = 0 /\ total_completion_tokens = 0
    /\ first_done = -1 /\ reconcile_in = NoReconcile

\* parse_batch_translation_result(result, subtitles, i * batch_size, batch_size)
Reconcile ==
    /\ phase = "reconcile"
    /\ \E i \in 0..(Len(subtitles) - 1), kind \in Kinds :
        /\ i * batch_size < Len(subtitles)
        /\ \E result \in Responses(kind, Numbers(subtitles, i * batch_size,
                                      EndIndex(subtitles, i * batch_size, batch_size))) :
            /\ reconcile_in' = [kind |-> kind, result |-> result,
                                start_index |-> i * batch_size]
            /\ all_results' = parse_batch_translation_result(result, subtitles,
                                                             i * batch_size, batch_size)
    /\ phase' = "reconciled"
    /\ UNCHANGED <<execVars, callVars, retr, mainVars, first_done, loop_i, batch_messages,
                   chat, batch_results, output,
                   total_prompt_tokens, total_completion_tokens>>

NextParse == Reconcile

SpecParse == InitParse /\ [][NextParse]_vars

\* the lines of the batch that was reconciled, and the entries of its response
ReconciledLines ==
    LET s == reconcile_in.start_index
    IN  SubSeq(subtitles, s + 1, Min(s + batch_size, Len(subtitles)))
ReconciledEntries ==
    SelectSeq(TheValue(reconcile_in.result), LAMBDA tok : tok.t = "obj")

\* C11: reconciling a well-formed list gives one result per line of the batch,
\* in the batch's order whatever the order of the entries: the translated text
\* of an entry with the line's number when there is one, the line's original
\* text otherwise.
C11_WellFormedResponse ==
    (phase = "reconciled" /\ reconcile_in.kind = "list")
        => /\ Len(all_results) = Len(ReconciledLines)
           /\ \A j \in DOMAIN ReconciledLines :
                LET line == ReconciledLines[j]
                    hits == {i \in DOMAIN ReconciledEntries :
                                ReconciledEntries[i].num = Some(line.number)}
                IN  /\ j \in DOMAIN all_results
                    /\ all_results[j][2] = None /\ all_results[j][3] = None
                    /\ IF hits # {}
                       THEN \E i \in hits : all_results[j][1] = ReconciledEntries[i].tr
                       ELSE all_results[j][1] = Some(line.text)

\* three lines; the response has the third line's entry, then the first line's
C11_Witness ==
    /\ phase = "reconciled" /\ reconcile_in.kind = "list"
    /\ Len(ReconciledLines) = 3
    /\ ReconciledEntries = <<Entry(ReconciledLines[3].number),
                             Entry(ReconciledLines[1].number)>>
    /\ all_results = << <<Some("zh" \o ToString(ReconciledLines[1].number)), None, None>>,
                        <<Some(ReconciledLines[2].text), None, None>>,
                        <<Some("zh" \o ToString(ReconciledLines[3].number)), None, None>> >>

\* C12: reconciling a response that is None, has no list, or has a list that
\* does not deserialize gives one result per line of the batch, each without
\* a translation: no source text is copied in.
C12_UnparsableResponse ==
    (phase = "reconciled" /\ reconcile_in.kind \in {"nil", "nolist", "badjson"})
        => /\ Len(all_results) = Len(ReconciledLines)
           /\ \A j \in DOMAIN all_results : all_results[j] = <<None, None, None>>

\* a three-line batch answered by a list that does not deserialize
C12_Witness ==
    /\ phase = "reconciled" /\ reconcile_in.kind = "badjson"
    /\ Len(ReconciledLines) = 3
    /\ all_results = << <<None, None, None>>, <<None, None, None>>, <<None, None, None>> >>

\* the response's list has an entry without its number or without its text
LacksField ==
    \E i \in DOMAIN ReconciledEntries :
        ReconciledEntries[i].num = None \/ ReconciledEntries[i].tr = None

\* C26: when the response's list deserializes and one of its entries lacks the
\* number or the translated text, every line of the batch gets a result
\* without a translation, also the lines whose own entries are well-formed.
C26_BadEntryDegradesBatch ==
    (phase = "reconciled" /\ reconcile_in.kind = "badentry" /\ LacksField)
        => /\ JsonLoads(TheValue(JsonMatch(TheValue(reconcile_in.result)))) # None
           /\ Len(all_results) = Len(ReconciledLines)
           /\ \A j \in DOMAIN all_results : all_results[j] = <<None, None, None>>

\* three lines; the entries of the first and the third are well-formed, the
\* second's has no translated text; no line has a translation
C26_Witness ==
    /\ phase = "reconciled" /\ reconcile_in.kind = "badentry"
    /\ Len(ReconciledLines) = 3
    /\ ReconciledEntries = <<Entry(ReconciledLines[1].number),
                             Obj(Some(ReconciledLines[2].number), None),
                             Entry(ReconciledLines[3].number)>>
    /\ all_results = << <<None, None, None>>, <<None, None, None>>, <<None, None, None>> >>

-----------------------------------------------------------------------------
(* A TaskManager under arbitrary submitters and get_result callers *)

\* one logical task calls get_result, MaxCalls times in a row
Callers  == {0}
Timeouts == {None} \cup {Some(t) : t \in 0..MaxTimeout}

NoRun ==
    /\ env = {} /\ subtitles = <<>> /\ batch_size = 1 /\ phase = "none"
    /\ loop_i = 0 /\ batch_messages = <<>> /\ chat = <<>> /\ batch_results = <<>>
    /\ all_results = <<>> /\ output = <<>>
    /\ total_prompt_tokens = 0 /\ total_completion_tokens = 0
    /\ first_done = -1 /\ reconcile_in = NoReconcile

InitExec ==
    /\ max_workers \in 1..MaxWorkers
    /\ ExecInit
    /\ now = 0
    /\ callers = [c \in Callers |-> IdleCaller]
    /\ retr = <<>>
    /\ NoRun

\* Submit waiting for a free permit
SubmitGated ==
    /\ task_counter < MaxTasks
    /\ permits > 0
    /\ SubmitOp("op")
    /\ UNCHANGED <<callVars, retr, runVars>>

Submit ==
    /\ task_counter < MaxTasks
    /\ SubmitOp("op")
    /\ UNCHANGED <<callVars, retr, runVars>>

ExecAcquire == \E id \in DOMAIN exec_pc : Acquire(id) /\ UNCHANGED <<callVars, retr, runVars>>
ExecBlock   == \E id \in DOMAIN exec_pc : Block(id) /\ UNCHANGED <<callVars, retr, runVars>>
ExecWake    == \E id \in DOMAIN exec_pc : Wake(id) /\ UNCHANGED <<callVars, retr, runVars>>
ExecFinish  == \E id \in DOMAIN exec_pc : Finish(id, Some("value")) /\ UNCHANGED <<callVars, retr, runVars>>

\* ExecRaise where the raise leaves the permit taken
ExecRaiseLeaks ==
    \E id \in DOMAIN exec_pc : RaiseKeepsPermit(id) /\ UNCHANGED <<callVars, retr, runVars>>

ExecRaise   == \E id \in DOMAIN exec_pc : Raise(id) /\ UNCHANGED <<callVars, retr, runVars>>

\* a caller enters get_result(id, timeout); id may be one never registered
GetResult ==
    \E c \in Callers, id \in 0..task_counter, timeout \in Timeouts :
        /\ callers[c].pc \in {"idle", "returned"}
        /\ callers[c].calls < MaxCalls
        /\ LET cl == [callers[c] EXCEPT
                         !.calls = @ + 1,
                         !.prev = IF callers[c].pc = "idle" THEN NoPrev
                                  ELSE [id |-> callers[c].id, how |-> callers[c].how]]
           IN callers' = [callers EXCEPT ![c] = GetResultEntry(tasks, cl, id, timeout, now)]
        /\ UNCHANGED <<now, execVars, retr, runVars>>

\* a caller wakes from asyncio.sleep(0.1)
Poll ==
    \E c \in Callers :
        /\ callers[c].pc = "polling"
        /\ callers' = [callers EXCEPT ![c] = GetResultPoll(tasks, callers[c], now)]
        /\ UNCHANGED <<now, execVars, retr, runVars>>

Tick ==
    /\ now < MaxTime
    /\ now' = now + 1
    /\ UNCHANGED <<callers, execVars, retr, runVars>>

NextExec ==
    \/ Submit \/ ExecAcquire \/ ExecBlock \/ ExecWake \/ ExecFinish \/ ExecRaise
    \/ GetResult \/ Poll \/ Tick

SpecExec == InitExec /\ [][NextExec]_vars

\* operations admitted by the gate and not yet finished
Executing == {id \in DOMAIN exec_pc : exec_pc[id] = "running"}

\* C1: for every worker budget N and every interleaving of more than N submitted
\* operations, the number of operations admitted by the gate and not yet
\* finished never exceeds N.
C1_AtMostNExecuting == Cardinality(Executing) <= max_workers

\* N bodies execute while a further submitted operation queues on the gate
C1_Witness ==
    /\ task_counter > max_workers
    /\ Cardinality(Executing) = max_workers
    /\ sem_waiters # <<>>

\* C4: get_result with a positive timeout returns None only once the timeout
\* has elapsed on an uncompleted task, and then does return None; that return
\* changes nothing of the executor (the task is not cancelled and keeps its
\* place); and whenever get_result returns for a registered id whose task is
\* completed, also after an earlier timeout on that id, it returns the task.
C4_TimeoutDoesNotCancel ==
    [][\A c \in Callers :
        LET cl == callers[c]
            cl2 == callers'[c]
        IN /\ (cl.pc = "polling" /\ cl2.pc = "returned" /\ cl2.ret = None)
                => /\ ~tasks[cl.id].completed
                   /\ cl.timeout \notin {None, Some(0)}
                   /\ now - cl.start > TheValue(cl.timeout)
                   /\ UNCHANGED execVars
           /\ (/\ cl.pc = "polling" /\ cl2 # cl /\ ~tasks[cl.id].completed
               /\ cl.timeout \notin {None, Some(0)}
               /\ now - cl.start > TheValue(cl.timeout))
                => (cl2.pc = "returned" /\ cl2.ret = None)
           /\ (/\ cl2 # cl /\ cl2.pc = "returned"
               /\ cl2.id \in DOMAIN tasks /\ tasks[cl2.id].completed)
                => (cl2.ret = TaskRef(cl2.id) /\ tasks'[cl2.id].completed)
      ]_vars

\* a get_result timed out on an id, the task completed afterwards, and the next
\* get_result on the same id returned the task
C4_Witness ==
    \E c \in Callers :
        /\ callers[c].prev.how = "timeout"
        /\ callers[c].prev.id = callers[c].id
        /\ callers[c].pc = "returned"
        /\ callers[c].ret = TaskRef(callers[c].id)
        /\ tasks[callers[c].id].completed

\* C15: for every id, completed goes from false to true at most once and never
\* back; once completed is true, result and error are not both set and the
\* task's fields never change again.
C15_CompletedIsFinal ==
    [][\A id \in DOMAIN tasks :
        /\ id \in DOMAIN tasks'
        /\ tasks[id].completed => tasks'[id] = tasks[id]
        /\ tasks'[id].completed
            => ~(tasks'[id].result # None /\ tasks'[id].error # None)
      ]_vars

\* a task completed with its result while another one is still to run
C15_Witness ==
    \E id, other \in DOMAIN tasks :
        /\ tasks[id].completed /\ tasks[id].result # None /\ tasks[id].error = None
        /\ exec_pc[id] = "done"
        /\ exec_pc[other] \in {"created", "waiting", "running"}

\* C16: submit is always possible, also with every slot taken, and one step:
\* it registers the work item under the next id with completed = false and
\* its body not started, and touches neither the gate nor any other task.
C16_SubmitDoesNotBlock ==
    /\ [](task_counter < MaxTasks => ENABLED Submit)
    /\ [][task_counter' # task_counter
            => /\ task_counter' = task_counter + 1
               /\ tasks' = tasks @@ (task_counter :> NewTask("op"))
               /\ ~tasks'[task_counter].completed
               /\ exec_pc' = exec_pc @@ (task_counter :> "created")
               /\ UNCHANGED <<permits, sem_waiters>>
        ]_vars

\* every slot is taken by an earlier task and the task submitted last is
\* registered, uncompleted, its body not started
C16_Witness ==
    /\ permits = 0
    /\ task_counter = max_workers + 1
    /\ \A id \in 0..(max_workers - 1) : exec_pc[id] = "running"
    /\ exec_pc[max_workers] = "created"
    /\ ~tasks[max_workers].completed

\* C18: the ids submit returns are 0, 1, 2, ...: each new id is the counter,
\* greater than every id registered before; the registry only grows, and every
\* registered id keeps its work item (never removed, never replaced by a
\* fresh one).
C18_IdsAreFreshAndKept ==
    /\ [](DOMAIN tasks = 0..(task_counter - 1))
    /\ [][/\ task_counter' >= task_counter
          /\ \A id \in DOMAIN tasks :
                /\ id \in DOMAIN tasks'
                /\ tasks'[id].func = tasks[id].func
                /\ tasks[id].completed => tasks'[id].completed
                /\ tasks[id].result # None => tasks'[id].result = tasks[id].result
          /\ \A id \in DOMAIN tasks' \ DOMAIN tasks :
                /\ id = task_counter
                /\ task_counter' = id + 1
                /\ \A j \in DOMAIN tasks : j < id
        ]_vars

\* a third submit after the first task completed: ids 0, 1, 2, task 0 kept
C18_Witness ==
    /\ task_counter = 3
    /\ DOMAIN tasks = {0, 1, 2}
    /\ tasks[0].completed
    /\ exec_pc[2] = "created"

\* C20: free permits + operations executing their body = N in every state:
\* the permit comes back when the body returns and when it raises.
C20_PermitsAreConserved == permits + Cardinality(Executing) = max_workers

\* one body raised, one returned, and a later one is executing
C20_Witness ==
    \E r, d, e \in DOMAIN exec_pc :
        /\ exec_pc[r] = "raised" /\ exec_pc[d] = "done" /\ exec_pc[e] = "running"
        /\ r < e /\ d < e
        /\ permits = max_workers - 1

\* operations whose body raised
Raised == {id \in DOMAIN exec_pc : exec_pc[id] = "raised"}

\* C21: once an operation's body has raised, its task is never completed and
\* its error and result stay unset, and a get_result on that id with no
\* timeout never returns: it is still polling after each of its wake-ups.
C21_RaisedNeverCompletes ==
    /\ [](\A id \in Raised :
            /\ ~tasks[id].completed
            /\ tasks[id].error = None /\ tasks[id].result = None)
    /\ [][/\ \A id \in Raised : id \in DOMAIN exec_pc' /\ exec_pc'[id] = "raised"
          /\ \A c \in Callers :
                (/\ callers[c].pc = "polling"
                 /\ callers[c].timeout = None
                 /\ callers[c].id \in Raised)
                    => callers'[c].pc = "polling"
        ]_vars

\* the body raised, the permit is back, and a get_result with no timeout that
\* started at time 0 is still polling at time MaxTime
C21_Witness ==
    \E c \in Callers :
        /\ callers[c].pc = "polling" /\ callers[c].timeout = None
        /\ callers[c].id \in Raised
        /\ callers[c].start = 0 /\ now = MaxTime
        /\ permits = max_workers

\* C22 as stated: a raise keeps its slot for ever, so the capacity left is N
\* minus the number of raises and after N raises nothing is admitted.
C22_SlotNeverReleased ==
    /\ permits + Cardinality(Executing) = max_workers - Cardinality(Raised)
    /\ Cardinality(Raised) >= max_workers => Executing = {}

\* C22: a body that raises gives its slot back in the same step; after N or
\* more raises, with no body executing, all N permits are free and a submitted
\* operation that has not started can be admitted.
C22_SlotReleasedOnRaise ==
    /\ [][\A id \in DOMAIN exec_pc :
            (exec_pc[id] = "running" /\ exec_pc'[id] = "raised")
                => permits' = permits + 1
        ]_vars
    /\ []((Cardinality(Raised) >= max_workers /\ Executing = {})
            => /\ permits = max_workers
               /\ ((\E id \in DOMAIN exec_pc : exec_pc[id] = "created") /\ sem_waiters = <<>>)
                    => ENABLED ExecAcquire)

\* N bodies raised and an operation submitted after them is executing
C22_Witness ==
    /\ Cardinality(Raised) >= max_workers
    /\ \E e \in Executing : \A r \in Raised : r < e

\* C25: get_result with timeout = 0 on a registered, uncompleted id does what
\* it does with no timeout, at its entry and at every wake-up: it goes on
\* polling and never returns None; get_result on an id that was never
\* registered returns None at its entry, without polling.
C25_ZeroTimeoutNeverExpires ==
    /\ [](\A c \in Callers, id \in DOMAIN tasks :
            LET cl == callers[c]
                zero == GetResultEntry(tasks, cl, id, Some(0), now)
                none == GetResultEntry(tasks, cl, id, None, now)
            IN  /\ zero = [none EXCEPT !.timeout = Some(0)]
                /\ ~tasks[id].completed => zero.pc = "polling"
                /\ (cl.pc = "polling" /\ cl.timeout = Some(0))
                    => GetResultPoll(tasks, cl, now) =
                        [GetResultPoll(tasks, [cl EXCEPT !.timeout = None], now)
                            EXCEPT !.timeout = Some(0)])
    /\ [][\A c \in Callers :
            LET cl == callers[c]
                cl2 == callers'[c]
            IN  /\ (/\ cl.pc = "polling" /\ cl.timeout = Some(0)
                    /\ ~tasks[cl.id].completed)
                        => cl2 = cl
                /\ (cl2.calls # cl.calls /\ cl2.timeout = Some(0)
                    /\ cl2.id \in DOMAIN tasks /\ ~tasks[cl2.id].completed)
                        => cl2.pc = "polling"
                /\ (cl2.calls # cl.calls /\ cl2.id \notin DOMAIN tasks)
                        => /\ cl2.pc = "returned" /\ cl2.ret = None
                           /\ cl2.how = "unregistered"
                           /\ UNCHANGED execVars
        ]_vars

\* a get_result on an unregistered id returned None at once, and the next one,
\* with timeout = 0 from time 0 on an uncompleted task, is still polling at
\* time MaxTime
C25_Witness ==
    \E c \in Callers :
        /\ callers[c].prev.how = "unregistered"
        /\ callers[c].pc = "polling" /\ callers[c].timeout = Some(0)
        /\ ~tasks[callers[c].id].completed
        /\ callers[c].start = 0 /\ now = MaxTime

-----------------------------------------------------------------------------
(* The executor alone, fairly scheduled *)

NextAdmit ==
    \/ Submit \/ ExecAcquire \/ ExecBlock \/ ExecWake \/ ExecFinish \/ ExecRaise

\* the event loop runs every ready coroutine, the semaphore wakes its first
\* waiter, and every admitted body ends (returns or raises)
SpecAdmit ==
    /\ InitExec /\ [][NextAdmit]_vars
    /\ WF_vars(ExecAcquire \/ ExecBlock)
    /\ WF_vars(ExecWake)
    /\ WF_vars(ExecFinish \/ ExecRaise)

\* C17: every submitted operation is eventually admitted and executed to its
\* end, however many were submitted while all slots were taken.
C17_NoStarvation ==
    \A id \in 0..MaxTasks :
        (id \in DOMAIN exec_pc) ~> (id \in DOMAIN exec_pc /\ exec_pc[id] \in {"done", "raised"})

\* more operations than slots were submitted and every one of them has ended
C17_Witness ==
    /\ task_counter > max_workers
    /\ sem_waiters = <<>>
    /\ \A id \in DOMAIN exec_pc : exec_pc[id] \in {"done", "raised"}
    /\ \E id \in DOMAIN exec_pc : id >= max_workers /\ exec_pc[id] = "done"

-----------------------------------------------------------------------------
(* One call of a function decorated with retry_on_failure *)

InitRetry ==
    /\ max_workers = 1
    /\ ExecInit
    /\ now = 0
    /\ callers = <<>>
    /\ \E k \in (-1)..MaxRetries, d \in 1..MaxDelay, f \in 1..MaxFactor :
            retr = (0 :> NewWrapper(k, d, f))
    /\ NoRun

\* the wrapper calls func, which is a plain function or a coroutine function
RetryAttempt ==
    /\ retr[0].pc = "call"
    /\ \E out \in Outcomes :
        /\ retr' = [retr EXCEPT ![0] = WrapperAttempt(retr[0], out)]
    /\ UNCHANGED <<execVars, callVars, runVars>>

RetrySleepDone ==
    /\ retr[0].pc = "sleep"
    /\ retr' = [retr EXCEPT ![0] = WrapperSleepDone(retr[0])]
    /\ UNCHANGED <<execVars, callVars, runVars>>

\* RetryAwait with the wrapper's except clause around the await: the error
\* counts as a failed attempt and the caller gets (None, None, None)
RetryAwaitCaught ==
    /\ retr[0].pc = "returned" /\ retr[0].ret = Some("coroutine")
    /\ chat = <<>>
    /\ \E body \in {"return", "raise"} :
        IF body = "return"
        THEN /\ chat' = (0 :> [NewChat EXCEPT !.pc = "returned",
                                              !.ret = <<Some(<<Txt>>), None, Some(Usage)>>])
             /\ UNCHANGED retr
        ELSE /\ chat' = (0 :> [NewChat EXCEPT !.pc = "returned"])
             /\ retr' = [retr EXCEPT ![0].outs = Append(@, "raise")]
    /\ UNCHANGED <<execVars, callVars, mainVars, sideVars, phase, loop_i, batch_messages,
                   batch_results, all_results, output,
                   total_prompt_tokens, total_completion_tokens>>

\* the caller awaits the coroutine object the wrapper returned; the wrapper's
\* frame is gone, so what the coroutine's body does reaches the caller as it
\* is: its value, or the error it raises
RetryAwait ==
    /\ retr[0].pc = "returned" /\ retr[0].ret = Some("coroutine")
    /\ chat = <<>>
    /\ \E body \in {"return", "raise"} :
        IF body = "return"
        THEN chat' = (0 :> [NewChat EXCEPT !.pc = "returned",
                                          !.ret = <<Some(<<Txt>>), None, Some(Usage)>>])
        ELSE chat' = (0 :> [NewChat EXCEPT !.pc = "raised"])
    /\ UNCHANGED <<execVars, callVars, retr, mainVars, sideVars, phase, loop_i, batch_messages,
                   batch_results, all_results, output,
                   total_prompt_tokens, total_completion_tokens>>

NextRetry == RetryAttempt \/ RetrySleepDone \/ RetryAwait

SpecRetry == InitRetry /\ [][NextRetry]_vars

RECURSIVE Pow(_, _)
Pow(b, e) == IF e = 0 THEN 1 ELSE b * Pow(b, e - 1)

AllFailures(outs) == \A i \in DOMAIN outs : outs[i] \in Failures

\* C7: with max_retries = k >= 0, on an operation that fails on every attempt
\* (None or an error of the retried kind), the wrapper ends only by returning
\* None, after exactly k+1 invocations, and never invokes it more than k+1 times.
C7_AlwaysFailing ==
    LET w == retr[0]
    IN  (w.max_retries >= 0 /\ AllFailures(w.outs))
            => /\ Len(w.outs) <= w.max_retries + 1
               /\ w.pc # "raised"
               /\ (w.pc = "returned") => (Len(w.outs) = w.max_retries + 1 /\ w.ret = None)
               /\ (Len(w.outs) = w.max_retries + 1) => w.pc = "returned"

\* max_retries = MaxRetries and every one of the MaxRetries+1 attempts failed
C7_Witness ==
    LET w == retr[0]
    IN  /\ w.max_retries = MaxRetries /\ w.pc = "returned" /\ w.ret = None
        /\ AllFailures(w.outs) /\ Len(w.outs) = MaxRetries + 1

\* C8: when the operation fails on its first f <= max_retries attempts and then
\* succeeds, the wrapper returns that result after f+1 invocations and f sleeps
\* of delay * backoff_factor^i, i = 0..f-1, in this order.
C8_FailsThenSucceeds ==
    LET w == retr[0]
        f == Len(w.outs) - 1
    IN  (/\ w.outs # <<>>
         /\ w.outs[Len(w.outs)] = "value"
         /\ AllFailures(SubSeq(w.outs, 1, f)))
            => /\ f <= w.max_retries
               /\ w.pc = "returned"
               /\ w.ret = Some("value")
               /\ Len(w.sleeps) = f
               /\ \A i \in 0..(f - 1) : At(w.sleeps, i) = w.delay * Pow(w.backoff_factor, i)

\* two failures, then a success, under max_retries = 3
C8_Witness ==
    LET w == retr[0]
    IN  /\ w.max_retries = 3 /\ w.pc = "returned" /\ w.ret = Some("value")
        /\ Len(w.outs) = 3 /\ AllFailures(SubSeq(w.outs, 1, 2))
        /\ w.sleeps = <<w.delay, w.delay * w.backoff_factor>>
        /\ w.backoff_factor > 1

\* C24: when the wrapped function is a coroutine function, the wrapper calls
\* it once, returns the coroutine object it got, and neither sleeps nor calls
\* again; when the caller awaits that object and its body raises, the caller
\* gets the error, not (None, None, None), and the wrapper makes no attempt.
C24_CoroutineIsNotRetried ==
    LET w == retr[0]
    IN  (w.outs # <<>> /\ w.outs[1] = "coroutine")
            => /\ w.outs = <<"coroutine">>
               /\ w.pc = "returned" /\ w.ret = Some("coroutine")
               /\ w.sleeps = <<>> /\ w.attempt = 0
               /\ w.current_delay = w.delay
               /\ (chat # <<>> /\ chat[0].pc = "returned") => chat[0].ret # NoneTuple

\* max_retries = MaxRetries; the awaited coroutine raised, the caller has the
\* error and the wrapper made its one call
C24_Witness ==
    /\ retr[0].max_retries = MaxRetries
    /\ retr[0].outs = <<"coroutine">>
    /\ chat # <<>> /\ chat[0].pc = "raised"

-----------------------------------------------------------------------------
(* A decorated plain function called on the thread of the event loop *)

\* the wrapper is called once, with one retry, by a coroutine of the loop that
\* also runs a TaskManager's coroutines
InitBackoff ==
    /\ max_workers \in 1..MaxWorkers
    /\ ExecInit
    /\ now = 0
    /\ callers = <<>>
    /\ retr = (0 :> NewWrapper(1, 1, 1))
    /\ NoRun

\* the thread is inside time.sleep(current_delay): it runs nothing else
InTimeSleep == \E b \in DOMAIN retr : retr[b].pc = "sleep"

\* the event loop runs one of its coroutines to its next suspension point
LoopSubmit  == ~InTimeSleep /\ Submit
LoopAcquire == ~InTimeSleep /\ ExecAcquire
LoopBlock   == ~InTimeSleep /\ ExecBlock
LoopWake    == ~InTimeSleep /\ ExecWake
LoopFinish  == ~InTimeSleep /\ ExecFinish
LoopRaise   == ~InTimeSleep /\ ExecRaise

LoopStep ==
    \/ LoopSubmit \/ LoopAcquire \/ LoopBlock \/ LoopWake \/ LoopFinish \/ LoopRaise

NextBackoff == RetryAttempt \/ RetrySleepDone \/ LoopStep

SpecBackoff == InitBackoff /\ [][NextBackoff]_vars

\* C23: while a unit of work is in its backoff delay, an operation that is
\* ready to run (submitted and not started, or executing its body) can take
\* a step.
C23_BackoffSuspendsOnlyRetrier ==
    (InTimeSleep /\ \E id \in DOMAIN exec_pc : exec_pc[id] \in {"created", "running"})
        => ENABLED LoopStep

=============================================================================
